---- MODULE Spec2Model ----
(***************************************************************************)
(* Model of go-github-fs: the fs.FS facade over the GitHub contents API    *)
(* (fs.go, options.go).                                                    *)
(*                                                                         *)
(* Strings.  A Go string that is used as a path is represented by the      *)
(* sequence of its "/"-separated segments, i.e. by strings.Split(s, "/").  *)
(* The representation is lossless: "" is <<"">>, "/" is <<"", "">>,        *)
(* "a/b" is <<"a", "b">>, "a//b" is <<"a", "", "b">>.  Segments are drawn  *)
(* from a small alphabet: the empty segment, ".", "..", and plain names.   *)
(***************************************************************************)
EXTENDS Integers, Sequences, FiniteSets, TLC

\* ---------------------------------------------------------------- bounds
MaxNameSegs == 4    \* longest well-formed name handed to Open or Sub, in segments
MaxPathSegs == 1    \* longest pinned path a handle derived by Sub may carry
MaxOpts     == 1    \* options handed to New
MaxItems    == 2    \* items in one remote listing
MaxRepos    == 1    \* repositories in one page of a listByOwner run
MaxPages    == 2    \* pages one listByOwner run reports
MaxEntries  == 4    \* entries of a directory whose cursor is exercised
MaxN        == 4    \* largest n handed to ReadDir
MaxCalls    == 3    \* ReadDir calls recorded on one directory handle

\* ------------------------------------------------------------- alphabets
Names    == {"a", "b"}                 \* plain path elements
Segments == {"", ".", ".."} \cup Names  \* what a segment of a string can be

EmptyStr == <<"">>        \* ""
Dot      == <<".">>       \* "."
Slash    == <<"", "">>    \* "/"

RECURSIVE SeqsUpTo(_, _)
SeqsUpTo(S, n) ==
  IF n = 0 THEN {<<>>}
  ELSE LET shorter == SeqsUpTo(S, n - 1)
       IN  shorter \cup {Append(s, x) : s \in {t \in shorter : Len(t) = n - 1}, x \in S}

StrsUpTo(n) == SeqsUpTo(Segments, n) \ {<<>>}

\* ------------------------------------------------ package path, strings, fs
Min(a, b) == IF a <= b THEN a ELSE b

RECURSIVE dropLeadingEmpty(_)
dropLeadingEmpty(s) ==
  IF s # <<>> /\ Head(s) = "" THEN dropLeadingEmpty(Tail(s)) ELSE s

RECURSIVE dropTrailingEmpty(_)
dropTrailingEmpty(s) ==
  IF s # <<>> /\ s[Len(s)] = "" THEN dropTrailingEmpty(SubSeq(s, 1, Len(s) - 1)) ELSE s

\* strings.Trim(s, "/"): strip the leading and the trailing slashes.
Trim(s) ==
  LET t == dropTrailingEmpty(dropLeadingEmpty(s))
  IN  IF t = <<>> THEN EmptyStr ELSE t

\* strings.Split(s, "/"): the list of the segments, each one a string.
Split(s) == [i \in 1..Len(s) |-> <<s[i]>>]

\* path.Clean: the lexical processing of the elements, left to right.
RECURSIVE cleanElems(_, _, _)
cleanElems(elems, out, rooted) ==
  IF elems = <<>> THEN out
  ELSE LET e == Head(elems)
           rest == Tail(elems)
       IN  IF e = "" \/ e = "."
             THEN cleanElems(rest, out, rooted)
           ELSE IF e = ".."
             THEN IF out # <<>> /\ out[Len(out)] # ".."
                    THEN cleanElems(rest, SubSeq(out, 1, Len(out) - 1), rooted)
                  ELSE IF rooted
                    THEN cleanElems(rest, out, rooted)
                  ELSE cleanElems(rest, Append(out, ".."), rooted)
           ELSE cleanElems(rest, Append(out, e), rooted)

Clean(s) ==
  IF s = EmptyStr THEN Dot
  ELSE LET rooted == Len(s) >= 2 /\ s[1] = ""
           out    == cleanElems(s, <<>>, rooted)
       IN  IF rooted THEN (IF out = <<>> THEN Slash ELSE <<"">> \o out)
           ELSE IF out = <<>> THEN Dot ELSE out

\* path.Join: drop the empty elements, join the rest with "/", Clean.
RECURSIVE joinElems(_)
joinElems(elems) ==
  IF elems = <<>> THEN <<>>
  ELSE IF Head(elems) = EmptyStr THEN joinElems(Tail(elems))
  ELSE Head(elems) \o joinElems(Tail(elems))

Join(elems) ==
  LET buf == joinElems(elems)
  IN  IF buf = <<>> THEN EmptyStr ELSE Clean(buf)

\* path.Base: the last element, "." for "", "/" for a string of slashes.
Base(s) ==
  IF s = EmptyStr THEN Dot
  ELSE LET t == dropTrailingEmpty(s)
       IN  IF t = <<>> THEN Slash ELSE <<t[Len(t)]>>

\* Go's s + t on the segment representation.
Concat(s, t) ==
  LET n == Len(s)
      glue == IF s[n] = "" THEN t[1] ELSE s[n]
  IN  SubSeq(s, 1, n - 1) \o <<glue>> \o Tail(t)

\* ValidPath that lets a ".." element through.
ValidPathLax(name) ==
  \/ name = Dot
  \/ \A i \in 1..Len(name) : name[i] \notin {"", "."}

\* fs.ValidPath: "." or slash-separated elements none of which is "", ".", "..".
ValidPath(name) ==
  \/ name = Dot
  \/ \A i \in 1..Len(name) : name[i] \notin {"", ".", ".."}

\* ------------------------------------------------------------------ errors
Nil == [type |-> "nil", op |-> "", path |-> EmptyStr, cause |-> "", status |-> 0]

\* &fs.PathError{Op: op, Path: path, Err: cause}
PathError(op, path, cause) ==
  [type |-> "PathError", op |-> op, path |-> path, cause |-> cause, status |-> 0]

\* errors.New(msg)
ErrorString(msg) ==
  [type |-> "errorString", op |-> "", path |-> EmptyStr, cause |-> msg, status |-> 0]

\* What the remote client can report: a *github.ErrorResponse carrying the
\* status of the HTTP response, or an error of any other type (transport,
\* rate limit, context), which errors.As does not match.
Statuses == {401, 403, 404, 500}
ErrorResponse(status) ==
  [type |-> "ErrorResponse", op |-> "", path |-> EmptyStr, cause |-> "", status |-> status]
OtherError ==
  [type |-> "other", op |-> "", path |-> EmptyStr, cause |-> "transport", status |-> 0]
RemoteErrors == {ErrorResponse(s) : s \in Statuses} \cup {OtherError}

\* fileContent.GetContent() failing: the payload's encoding cannot be decoded.
DecodeError ==
  [type |-> "other", op |-> "", path |-> EmptyStr, cause |-> "decode", status |-> 0]

\* handleErr that maps 403 alone to a permission error.
handleErrForbiddenOnly(err, op, path) ==
  IF err.type = "ErrorResponse"
    THEN IF err.status = 404 THEN PathError(op, path, "ErrNotExist")
         ELSE IF err.status \in {403} THEN PathError(op, path, "ErrPermission")
         ELSE err
  ELSE IF err # Nil THEN err
  ELSE Nil

handleErr(err, op, path) ==
  IF err.type = "ErrorResponse"
    THEN IF err.status = 404 THEN PathError(op, path, "ErrNotExist")
         ELSE IF err.status \in {403, 401} THEN PathError(op, path, "ErrPermission")
         ELSE err
  ELSE IF err # Nil THEN err
  ELSE Nil

\* --------------------------------------------------------------------- ref
Ref(owner, repo, path) == [owner |-> owner, repo |-> repo, path |-> path]
ZeroRef == Ref(EmptyStr, EmptyStr, EmptyStr)

\* join that takes the repository segment without stepping past it.
joinRepoNotConsumed(r, name) ==
  IF r.owner # EmptyStr /\ r.repo # EmptyStr
    THEN [r EXCEPT !.path = Join(<<r.path, name>>)]
  ELSE
    LET segments == IF name = EmptyStr \/ name = Dot THEN <<>>
                    ELSE Split(Trim(Clean(name)))
        takeOwner == r.owner = EmptyStr /\ Len(segments) > 0
        owner == IF takeOwner THEN segments[1] ELSE r.owner
        i1 == IF takeOwner THEN 1 ELSE 0
        takeRepo == r.repo = EmptyStr /\ Len(segments) > i1
        repo == IF takeRepo THEN segments[i1 + 1] ELSE r.repo
        path == IF Len(segments) > i1
                  THEN Join(<<r.path, Join(SubSeq(segments, i1 + 1, Len(segments)))>>)
                ELSE r.path
    IN  Ref(owner, repo, path)

join(r, name) ==
  IF r.owner # EmptyStr /\ r.repo # EmptyStr
    THEN [r EXCEPT !.path = Join(<<r.path, name>>)]
  ELSE
    LET segments == IF name = EmptyStr \/ name = Dot THEN <<>>
                    ELSE Split(Trim(Clean(name)))
        i0 == 0
        takeOwner == r.owner = EmptyStr /\ Len(segments) > i0
        owner == IF takeOwner THEN segments[i0 + 1] ELSE r.owner
        i1 == IF takeOwner THEN i0 + 1 ELSE i0
        takeRepo == r.repo = EmptyStr /\ Len(segments) > i1
        repo == IF takeRepo THEN segments[i1 + 1] ELSE r.repo
        i2 == IF takeRepo THEN i1 + 1 ELSE i1
        path == IF Len(segments) > i2
                  THEN Join(<<r.path, Join(SubSeq(segments, i2 + 1, Len(segments)))>>)
                ELSE r.path
    IN  Ref(owner, repo, path)

\* The condition under which validate panics.
invalidRef(r) ==
  \/ r.owner = EmptyStr /\ r.repo # EmptyStr
  \/ (r.owner = EmptyStr \/ r.repo = EmptyStr) /\ r.path # EmptyStr

\* validate without its check of the owner.
validateNoOwnerCheck(r, op) ==
  IF r.path # EmptyStr /\ ~ValidPath(r.path) THEN PathError(op, r.path, "ErrInvalid")
  ELSE Nil

\* validate past its panic: the error it returns, or Nil.
validate(r, op) ==
  IF r.owner = EmptyStr THEN PathError(op, EmptyStr, "owner is missing")
  ELSE IF r.path # EmptyStr /\ ~ValidPath(r.path) THEN PathError(op, r.path, "ErrInvalid")
  ELSE Nil

string(r) == Join(<<Slash, r.owner, r.repo, r.path>>)

\* ----------------------------------------------------------------- options
\* An option is the closure its constructor returns; `val` is the client or
\* the context function it carries.
WithOwner(owner) ==
  [opt |-> "WithOwner", owner |-> owner, repo |-> EmptyStr, val |-> ""]
WithRepository(owner, repo) ==
  [opt |-> "WithRepository", owner |-> owner, repo |-> repo, val |-> ""]
WithClient(c) ==
  [opt |-> "WithClient", owner |-> EmptyStr, repo |-> EmptyStr, val |-> c]
WithContextFunc(fn) ==
  [opt |-> "WithContextFunc", owner |-> EmptyStr, repo |-> EmptyStr, val |-> fn]

\* The arguments an option is given: a name, or the empty string.
OptArgs == {EmptyStr} \cup {<<x>> : x \in Names}
Options ==
  {WithOwner(o) : o \in OptArgs}
    \cup {WithRepository(o, r) : o \in OptArgs, r \in OptArgs}
    \cup {WithClient("client1"), WithContextFunc("fn1")}

\* -------------------------------------------------------------------- fsys
\* The context is never configured here: it is context.Background().
Fsys(r, ctxFn, client) ==
  [ref |-> r, ctx |-> "background", ctxFn |-> ctxFn, client |-> client]

apply(f, o) ==
  IF o.opt = "WithOwner"
    THEN IF o.owner = EmptyStr THEN f ELSE [f EXCEPT !.ref.owner = o.owner]
  ELSE IF o.opt = "WithRepository"
    THEN [f EXCEPT !.ref.owner = IF o.owner # EmptyStr THEN o.owner ELSE @,
                   !.ref.repo  = IF o.repo # EmptyStr THEN o.repo ELSE @]
  ELSE IF o.opt = "WithClient" THEN [f EXCEPT !.client = o.val]
  ELSE [f EXCEPT !.ctxFn = o.val]

RECURSIVE applyAll(_, _)
applyAll(f, opts) ==
  IF opts = <<>> THEN f ELSE applyAll(apply(f, Head(opts)), Tail(opts))

New(opts) ==
  LET g == applyAll(Fsys(ZeroRef, "nil", "nil"), opts)
  IN  [g EXCEPT !.ctxFn  = IF @ = "nil" THEN "identity" ELSE @,
                !.client = IF @ = "nil" THEN "default" ELSE @]

clone(f, r) == [ref |-> r, ctx |-> f.ctx, ctxFn |-> f.ctxFn, client |-> f.client]

\* ------------------------------------------------------------ the remote
\* A call as the remote client sees it: which client, under which context
\* (the handle's context function applied to its context), with which
\* arguments, and what the remote answered.
Call(api, f, owner, repo, path, page, resp) ==
  [api |-> api, client |-> f.client, ctx |-> <<f.ctxFn, f.ctx>>,
   owner |-> owner, repo |-> repo, path |-> path, page |-> page, resp |-> resp]

\* One page of ListByUser: the repositories' names, the next page (0 when
\* there is none), the error.
Page(repos, nextPage, err) == [repos |-> repos, nextPage |-> nextPage, err |-> err]
RepoNames == {<<x>> : x \in Names}
NextPages == {2, 5}
GoodPages(last) ==
  {Page(repos, np, Nil) : repos \in SeqsUpTo(RepoNames, MaxRepos),
                          np \in IF last THEN {0} ELSE NextPages}
FinalPages == GoodPages(TRUE) \cup {Page(<<>>, 0, e) : e \in RemoteErrors}

\* The answers of one pagination run: every page but the last reports a
\* next page, the last reports none or fails.
RECURSIVE PageRuns(_)
PageRuns(n) ==
  IF n = 1 THEN {<<p>> : p \in FinalPages}
  ELSE PageRuns(n - 1) \cup
       {<<p>> \o run : p \in GoodPages(FALSE),
                       run \in {t \in PageRuns(n - 1) : Len(t) = n - 1}}

AllRuns == PageRuns(MaxPages)

\* GetContents: a file, a listing, neither, or an error.
Item(name, type, size) == [name |-> name, type |-> type, size |-> size]
Items == {Item(<<"a">>, "dir", 0), Item(<<"b">>, "file", 7)}
NoFileContent == [present |-> FALSE, name |-> EmptyStr, size |-> 0, decodes |-> FALSE]
FileContent(name, size, decodes) ==
  [present |-> TRUE, name |-> name, size |-> size, decodes |-> decodes]
Contents(file, isDir, items, err) ==
  [file |-> file, isDir |-> isDir, items |-> items, err |-> err]
ContentResponses ==
  {Contents(NoFileContent, FALSE, <<>>, e) : e \in RemoteErrors}
    \cup {Contents(FileContent(<<n>>, 7, d), FALSE, <<>>, Nil) : n \in Names, d \in BOOLEAN}
    \cup {Contents(NoFileContent, TRUE, l, Nil) : l \in SeqsUpTo(Items, MaxItems)}
    \cup {Contents(NoFileContent, FALSE, <<>>, Nil)}

\* ------------------------------------------------------- what Open returns
NoFile == [kind |-> "none", name |-> EmptyStr, size |-> 0, entries |-> <<>>, offset |-> 0]
File(name, size) ==
  [kind |-> "file", name |-> name, size |-> size, entries |-> <<>>, offset |-> 0]
Dir(name, entries) ==
  [kind |-> "dir", name |-> name, size |-> 0, entries |-> entries, offset |-> 0]
dirEntry(name, isDir, size) == [name |-> name, isDir |-> isDir, size |-> size]

Returned(file, err, calls) ==
  [file |-> file, err |-> err, calls |-> calls, panic |-> FALSE]
Panicked == [file |-> NoFile, err |-> Nil, calls |-> <<>>, panic |-> TRUE]

\* The listing loop that keeps only the repositories of the page just read.
RECURSIVE listLoopLastPageOnly(_, _, _, _, _, _)
listLoopLastPageOnly(f, owner, run, page, allRepos, calls) ==
  LET resp   == Head(run)
      calls2 == Append(calls, Call("ListByUser", f, owner, EmptyStr, EmptyStr, page, resp))
      err    == handleErr(resp.err, "open", Concat(Slash, owner))
      all2   == resp.repos
  IN  IF err # Nil THEN Returned(NoFile, err, calls2)
      ELSE IF resp.nextPage = 0
        THEN Returned(Dir(owner, [i \in 1..Len(all2) |-> dirEntry(all2[i], TRUE, 0)]),
                      Nil, calls2)
      ELSE listLoopLastPageOnly(f, owner, Tail(run), resp.nextPage, all2, calls2)

\* listRepositories, its loop unrolled over the answers of the run.
RECURSIVE listLoop(_, _, _, _, _, _)
listLoop(f, owner, run, page, allRepos, calls) ==
  LET resp   == Head(run)
      calls2 == Append(calls, Call("ListByUser", f, owner, EmptyStr, EmptyStr, page, resp))
      err    == handleErr(resp.err, "open", Concat(Slash, owner))
      all2   == allRepos \o resp.repos
  IN  IF err # Nil THEN Returned(NoFile, err, calls2)
      ELSE IF resp.nextPage = 0
        THEN Returned(Dir(owner, [i \in 1..Len(all2) |-> dirEntry(all2[i], TRUE, 0)]),
                      Nil, calls2)
      ELSE listLoop(f, owner, Tail(run), resp.nextPage, all2, calls2)

listRepositories(f, owner, run) == listLoop(f, owner, run, 0, <<>>, <<>>)

getRepoContent(f, r, resp) ==
  LET calls == <<Call("GetContents", f, r.owner, r.repo, r.path, 0, resp)>>
      err   == handleErr(resp.err, "open", string(r))
  IN  IF err # Nil THEN Returned(NoFile, err, calls)
      ELSE IF resp.file.present
        THEN IF ~resp.file.decodes THEN Returned(NoFile, DecodeError, calls)
             ELSE Returned(File(resp.file.name, resp.file.size), Nil, calls)
      ELSE IF resp.isDir
        THEN Returned(Dir(Base(string(r)),
                          [i \in 1..Len(resp.items) |->
                             dirEntry(resp.items[i].name, resp.items[i].type = "dir",
                                      resp.items[i].size)]),
                      Nil, calls)
      ELSE Returned(NoFile, ErrorString("invalid response: no file or directory returned"),
                    calls)

\* Open, given what the remote would answer: `run` to the ListByUser calls,
\* `resp` to the GetContents call.
Open(fh, name, run, resp) ==
  IF ~ValidPath(name)
    THEN Returned(NoFile, PathError("open", name, "ErrInvalid"), <<>>)
  ELSE LET r == join(fh.ref, name)
       IN  IF invalidRef(r) THEN Panicked
           ELSE IF validate(r, "open") # Nil
             THEN Returned(NoFile, validate(r, "open"), <<>>)
           ELSE IF r.repo = EmptyStr THEN listRepositories(fh, r.owner, run)
           ELSE getRepoContent(fh, r, resp)

\* Sub whose join works on the receiver's own reference instead of a copy.
SubInPlace(fh, dir) ==
  IF ~ValidPath(dir)
    THEN [fs |-> fh, ok |-> FALSE, err |-> PathError("sub", dir, "ErrInvalid"),
          recv |-> fh]
  ELSE [fs |-> clone(fh, join(fh.ref, dir)), ok |-> TRUE, err |-> Nil,
        recv |-> [fh EXCEPT !.ref = join(fh.ref, dir)]]

\* Sub: the error, the handle it returns (fh itself stands for none), and
\* the receiver as the call leaves it (join has a value receiver and clone
\* builds a new handle, so the receiver is not written).
Sub(fh, dir) ==
  IF ~ValidPath(dir)
    THEN [fs |-> fh, ok |-> FALSE, err |-> PathError("sub", dir, "ErrInvalid"),
          recv |-> fh]
  ELSE [fs |-> clone(fh, join(fh.ref, dir)), ok |-> TRUE, err |-> Nil,
        recv |-> fh]

\* ReadDir with the end signal attached whenever the list is exhausted.
ReadDirEofOnExhaust(dd, n) ==
  LET remaining == Len(dd.entries) - dd.offset
      count     == Min(n, remaining)
  IN  IF n <= 0
        THEN IF remaining = 0
               THEN [d |-> dd, entries |-> <<>>, eof |-> FALSE]
             ELSE [d |-> [dd EXCEPT !.offset = Len(dd.entries)],
                   entries |-> [i \in 1..remaining |-> dd.entries[dd.offset + i]],
                   eof |-> FALSE]
      ELSE IF remaining = 0
        THEN [d |-> dd, entries |-> <<>>, eof |-> TRUE]
      ELSE [d |-> [dd EXCEPT !.offset = dd.offset + count],
            entries |-> [i \in 1..count |-> dd.entries[dd.offset + i]],
            eof |-> dd.offset + count >= Len(dd.entries)]

\* ReadDir whose bounded read copies from the start of the list.
ReadDirFromStart(dd, n) ==
  LET remaining == Len(dd.entries) - dd.offset
      count     == Min(n, remaining)
  IN  IF n <= 0
        THEN IF remaining = 0
               THEN [d |-> dd, entries |-> <<>>, eof |-> FALSE]
             ELSE [d |-> [dd EXCEPT !.offset = Len(dd.entries)],
                   entries |-> [i \in 1..remaining |-> dd.entries[dd.offset + i]],
                   eof |-> FALSE]
      ELSE IF remaining = 0
        THEN [d |-> dd, entries |-> <<>>, eof |-> TRUE]
      ELSE [d |-> [dd EXCEPT !.offset = dd.offset + count],
            entries |-> [i \in 1..count |-> dd.entries[i]],
            eof |-> dd.offset + count >= Len(dd.entries) /\ n > count]

\* dir.ReadDir: the entries returned, whether io.EOF comes with them, and
\* the directory with its cursor moved.
ReadDir(dd, n) ==
  LET remaining == Len(dd.entries) - dd.offset
      count     == Min(n, remaining)
  IN  IF n <= 0
        THEN IF remaining = 0
               THEN [d |-> dd, entries |-> <<>>, eof |-> FALSE]
             ELSE [d |-> [dd EXCEPT !.offset = Len(dd.entries)],
                   entries |-> [i \in 1..remaining |-> dd.entries[dd.offset + i]],
                   eof |-> FALSE]
      ELSE IF remaining = 0
        THEN [d |-> dd, entries |-> <<>>, eof |-> TRUE]
      ELSE [d |-> [dd EXCEPT !.offset = dd.offset + count],
            entries |-> [i \in 1..count |-> dd.entries[dd.offset + i]],
            eof |-> dd.offset + count >= Len(dd.entries) /\ n > count]

\* ------------------------------------------------------------------- state
VARIABLES
  f,      \* the filesystem handle in use
  parent, \* the handle the last Sub was called on, as that call left it
  last,   \* the last call on a filesystem handle: its arguments and its outcome
  d,      \* an open directory handle
  reads   \* the ReadDir calls made on d so far, each with its result

vars == <<f, parent, last, d, reads>>

ValidNames == (SeqsUpTo(Names, MaxNameSegs) \ {<<>>}) \cup {Dot}
BadNames ==
  { <<"">>, <<"", "">>, <<"", "a">>, <<"a", "">>, <<"..">>, <<"a", "..">>,
    <<"..", "a">>, <<".", "a">>, <<"a", ".">>, <<"a", "", "b">>, <<"a", "..", "b">> }
AllNames == ValidNames \cup BadNames

OptLists == SeqsUpTo(Options, MaxOpts)

\* prev is the handle the call was made on, ref the reference it resolved,
\* derived whether a Sub call returned a handle (then f is that handle).
Record(op, name, opts, prev, r, derived, out) ==
  [op |-> op, name |-> name, opts |-> opts, prev |-> prev, ref |-> r,
   derived |-> derived, out |-> out]

NoRun  == <<Page(<<>>, 0, Nil)>>
NoResp == Contents(NoFileContent, FALSE, <<>>, Nil)

\* The remote is consulted only by an Open that gets as far as a call.
resolves(fh, name) ==
  /\ ValidPath(name)
  /\ ~invalidRef(join(fh.ref, name))
  /\ validate(join(fh.ref, name), "open") = Nil
RunsFor(fh, name) ==
  IF resolves(fh, name) /\ join(fh.ref, name).repo = EmptyStr
    THEN AllRuns ELSE {NoRun}
ResponsesFor(fh, name) ==
  IF resolves(fh, name) /\ join(fh.ref, name).repo # EmptyStr
    THEN ContentResponses ELSE {NoResp}

EntriesOf(k) == [i \in 1..k |-> dirEntry(<<ToString(i)>>, i % 2 = 0, i)]
NoDir == Dir(EmptyStr, <<>>)

Init ==
  /\ \E opts \in OptLists :
       /\ f = New(opts)
       /\ parent = New(opts)
       /\ last = Record("new", EmptyStr, opts, New(opts), New(opts).ref, FALSE,
                        Returned(NoFile, Nil, <<>>))
  /\ d = NoDir
  /\ reads = <<>>

\* The caller holds one result at a time: it makes a call when it holds none
\* (after construction, or once it has taken the previous result).
Ready == last.op \in {"new", "idle"}

SubStep ==
  /\ Ready
  /\ \E dir \in AllNames :
       LET s == Sub(f, dir)
       IN  /\ Len(s.fs.ref.path) <= MaxPathSegs
           /\ f' = s.fs
           /\ parent' = s.recv
           /\ last' = Record("sub", dir, <<>>, f,
                             IF s.ok THEN s.fs.ref ELSE ZeroRef, s.ok,
                             Returned(NoFile, s.err, <<>>))
  /\ UNCHANGED <<d, reads>>

OpenStep ==
  /\ Ready
  /\ \E name \in AllNames :
       \E run \in RunsFor(f, name), resp \in ResponsesFor(f, name) :
         last' = Record("open", name, <<>>, f,
                        IF ValidPath(name) THEN join(f.ref, name) ELSE ZeroRef,
                        FALSE, Open(f, name, run, resp))
  /\ UNCHANGED <<f, parent, d, reads>>

\* The caller takes the result of the call and goes on with one handle:
\* after a Sub that is the derived handle or the parent, otherwise the
\* handle stays as it is.
ReturnStep ==
  /\ ~Ready
  /\ \E h \in {f, parent} :
       /\ f' = h
       /\ parent' = h
       /\ last' = Record("idle", EmptyStr, <<>>, h, h.ref, FALSE,
                         Returned(NoFile, Nil, <<>>))
  /\ UNCHANGED <<d, reads>>

Next == SubStep \/ OpenStep \/ ReturnStep

Spec == Init /\ [][Next]_vars

\* The directory cursor on its own: a directory as Open builds it (the
\* entries materialised, the offset 0), then ReadDir calls.
InitDir ==
  /\ f = New(<<>>)
  /\ parent = New(<<>>)
  /\ last = Record("new", EmptyStr, <<>>, New(<<>>), ZeroRef, FALSE,
                   Returned(NoFile, Nil, <<>>))
  /\ \E k \in 0..MaxEntries : d = Dir(<<"a">>, EntriesOf(k))
  /\ reads = <<>>

ReadDirStep ==
  \E n \in -1..MaxN :
    LET r == ReadDir(d, n)
    IN  /\ Len(reads) < MaxCalls
        /\ d' = r.d
        /\ reads' = Append(reads, [n |-> n, entries |-> r.entries, eof |-> r.eof])
        /\ UNCHANGED <<f, parent, last>>

NextDir == ReadDirStep

SpecDir == InitDir /\ [][NextDir]_vars

\* ================================================================= facade
Out   == last.out
Calls == last.out.calls
Args(c) == <<c.api, c.owner, c.repo, c.path>>

OwnerScoped(o)   == Ref(<<o>>, EmptyStr, EmptyStr)
RepoScoped(o, r) == Ref(<<o>>, <<r>>, EmptyStr)

Suffixes(s) == {SubSeq(s, i, Len(s)) : i \in 1..Len(s)}

\* The well-formed non-root sub-paths p for which "o/r/p" is among the names.
SubPaths == {p \in ValidNames : p # Dot /\ Len(p) + 2 <= MaxNameSegs}

\* "/owner/repository/path" with the empty components collapsed (a path of
\* "." is the root and adds nothing).
Component(c) == IF c = EmptyStr \/ c = Dot THEN <<>> ELSE c
Canon(r) ==
  LET segs == Component(r.owner) \o Component(r.repo) \o Component(r.path)
  IN  IF segs = <<>> THEN Slash ELSE <<"">> \o segs

\* The class of an error, as errors.Is tells it from the cause it wraps.
Class(err) ==
  IF err.type = "PathError" /\ err.cause = "ErrNotExist" THEN "not-found"
  ELSE IF err.type = "PathError" /\ err.cause = "ErrPermission" THEN "permission"
  ELSE IF err.type = "PathError" /\ err.cause = "ErrInvalid" THEN "invalid"
  ELSE "other"

\* Not a well-formed relative path: the empty string, a leading slash, an
\* empty segment, a "." or ".." segment (the root "." itself is well-formed).
Malformed(name) ==
  \/ name = EmptyStr
  \/ \E i \in 1..Len(name) : name[i] = ""
  \/ name # Dot /\ \E i \in 1..Len(name) : name[i] \in {".", ".."}

\* C4: for every owner o, repository r and well-formed non-root sub-path p,
\* WithOwner(o), WithRepository(o, "") and Sub("o") pin (o, "", ""),
\* WithRepository(o, r), Sub("o/r") and Sub("r") on an owner-scoped handle
\* pin (o, r, ""), and Open("o/r/p") unscoped, Open("r/p") on a handle
\* pinned to o and Open("p") on a handle pinned to o and r all resolve to
\* (o, r, p) and issue the one call getContents(o, r, p).  (In each of the
\* three names p is a suffix of the name, so p ranges over those.)
C4_SameReference ==
  \A o \in Names, r \in Names :
    /\ (last.op = "new"
          /\ last.opts \in {<<WithOwner(<<o>>)>>, <<WithRepository(<<o>>, EmptyStr)>>})
         => f.ref = OwnerScoped(o)
    /\ (last.op = "sub" /\ last.prev.ref = ZeroRef /\ last.name = <<o>>)
         => (last.derived /\ f.ref = OwnerScoped(o))
    /\ (last.op = "new" /\ last.opts = <<WithRepository(<<o>>, <<r>>)>>)
         => f.ref = RepoScoped(o, r)
    /\ (last.op = "sub" /\ last.prev.ref = ZeroRef /\ last.name = <<o, r>>)
         => (last.derived /\ f.ref = RepoScoped(o, r))
    /\ (last.op = "sub" /\ last.prev.ref = OwnerScoped(o) /\ last.name = <<r>>)
         => (last.derived /\ f.ref = RepoScoped(o, r))
    /\ last.op = "open" =>
         \A p \in SubPaths \cap Suffixes(last.name) :
           (\/ last.prev.ref = ZeroRef /\ last.name = <<o, r>> \o p
            \/ last.prev.ref = OwnerScoped(o) /\ last.name = <<r>> \o p
            \/ last.prev.ref = RepoScoped(o, r) /\ last.name = p)
             => /\ last.ref = Ref(<<o>>, <<r>>, p)
                /\ Len(Calls) = 1
                /\ Args(Calls[1]) = <<"GetContents", <<o>>, <<r>>, p>>

\* Open("b/a/b") on a handle pinned to owner a returns the file a/b/a/b.
C4_Witness ==
  /\ last.op = "open"
  /\ last.prev.ref = OwnerScoped("a")
  /\ last.name = <<"b", "a", "b">>
  /\ last.ref = Ref(<<"a">>, <<"b">>, <<"a", "b">>)
  /\ Out.file.kind = "file"

\* C5: Open(".") on a handle pinned to (o, r, "") resolves to (o, r, ""),
\* as Open("o/r") unscoped and Open("r") on a handle pinned to o do, with
\* the same getContents arguments, and returns a directory named r when the
\* remote answers with a listing.
C5_RepositoryRoot ==
  \A o \in Names, r \in Names :
    (last.op = "open"
       /\ \/ last.prev.ref = RepoScoped(o, r) /\ last.name = Dot
          \/ last.prev.ref = ZeroRef /\ last.name = <<o, r>>
          \/ last.prev.ref = OwnerScoped(o) /\ last.name = <<r>>)
      => /\ last.ref = RepoScoped(o, r)
         /\ Len(Calls) = 1
         /\ Args(Calls[1]) = <<"GetContents", <<o>>, <<r>>, EmptyStr>>
         /\ (Calls[1].resp.err = Nil /\ Calls[1].resp.isDir)
              => (Out.file.kind = "dir" /\ Out.file.name = <<r>>)

\* C6: Open of a malformed name returns no handle and the invalid-argument
\* error tagged "open" with the name as given, Sub of one returns no handle
\* and the error tagged "sub"; neither makes a remote call, whatever the
\* handle is pinned to.
C6_MalformedRejected ==
  (last.op \in {"open", "sub"} /\ Malformed(last.name)) =>
    /\ Out.err = PathError(last.op, last.name, "ErrInvalid")
    /\ Class(Out.err) = "invalid"
    /\ Out.file = NoFile
    /\ ~last.derived
    /\ f = last.prev
    /\ Calls = <<>>
    /\ ~Out.panic

\* Open("a/..") on a handle pinned to an owner and a repository.
C6_Witness ==
  /\ last.op = "open"
  /\ last.name = <<"a", "..">>
  /\ last.prev.ref.repo # EmptyStr /\ last.prev.ref.owner # EmptyStr
  /\ Out.err.cause = "ErrInvalid"

\* C7: an Open of a well-formed name whose resolved reference has an empty
\* owner returns (it does not abort) no handle and the structured error
\* with operation "open", empty path and cause "owner is missing", without
\* a remote call.
C7_OwnerMissing ==
  (last.op = "open" /\ ~Malformed(last.name) /\ last.ref.owner = EmptyStr) =>
    /\ ~Out.panic
    /\ Out.file = NoFile
    /\ Out.err = PathError("open", EmptyStr, "owner is missing")
    /\ Calls = <<>>

ShortPlain(name) == Len(name) <= 2 /\ \A i \in 1..Len(name) : name[i] \in Names

IsStatus(e, S) == e.type = "ErrorResponse" /\ e.status \in S

\* C9: when the remote call of an Open fails, Open returns no handle; status
\* 404 becomes the not-found error tagged "open" and the canonical path of
\* the resolved reference, 401 and 403 the permission error with the same
\* tags, any other status and any other error is returned unchanged.  When
\* the remote call reports no error, no error comes out of the translation.
C9_ErrorTranslation ==
  (last.op = "open" /\ Calls # <<>>) =>
    LET e == Calls[Len(Calls)].resp.err
    IN  /\ e # Nil =>
             /\ Out.file = NoFile
             /\ IsStatus(e, {404}) =>
                  (Out.err = PathError("open", Canon(last.ref), "ErrNotExist")
                     /\ Class(Out.err) = "not-found")
             /\ IsStatus(e, {401, 403}) =>
                  (Out.err = PathError("open", Canon(last.ref), "ErrPermission")
                     /\ Class(Out.err) = "permission")
             /\ ~IsStatus(e, {404, 401, 403}) => Out.err = e
        /\ e = Nil =>
             /\ Out.err.type \notin {"PathError", "ErrorResponse"}
             /\ Out.err # OtherError
             /\ Calls[Len(Calls)].api = "ListByUser" => Out.err = Nil

\* The second page of a listing fails with 401.
C9_Witness ==
  /\ last.op = "open"
  /\ Len(Calls) = 2
  /\ Calls[2].resp.err = ErrorResponse(401)
  /\ Out.err = PathError("open", <<"", "a">>, "ErrPermission")

\* C10: every error Open or Sub returns carries the operation name, the
\* path as given or as resolved, and a cause; Open returns a handle and no
\* error, or an error and no handle.
C10_ErrorsTagged ==
  /\ (last.op \in {"open", "sub"} /\ Out.err # Nil) =>
       /\ Out.err.type = "PathError"
       /\ Out.err.op = last.op
       /\ Out.err.path \in {last.name, Canon(last.ref), last.ref.path}
       /\ Out.err.cause # ""
  /\ last.op = "open" =>
       /\ ~Out.panic
       /\ Out.file # NoFile <=> Out.err = Nil

\* C11: Sub of a well-formed name succeeds without a remote call and without
\* validating (also when the derived reference has no owner); the derived
\* handle is pinned to join(parent's reference, name) and has the parent's
\* client, context and context function; the parent is left as it was, so
\* every name resolves on it as before the call.  A derived reference with
\* no owner fails only at Open, before any remote call.
C11_SubDerives ==
  /\ (last.op = "sub" /\ ~Malformed(last.name)) =>
       /\ last.derived
       /\ Out.err = Nil
       /\ ~Out.panic
       /\ Calls = <<>>
       /\ f.ref = join(last.prev.ref, last.name)
       /\ f.client = last.prev.client
       /\ f.ctxFn = last.prev.ctxFn
       /\ f.ctx = last.prev.ctx
       /\ parent = last.prev
       /\ \A n \in Suffixes(last.name) \cup {Dot} :
            join(parent.ref, n) = join(last.prev.ref, n)
  /\ (last.op = "open" /\ ~Malformed(last.name) /\ last.ref.owner = EmptyStr) =>
       /\ Out.err # Nil \/ Out.panic
       /\ Out.file = NoFile
       /\ Calls = <<>>

\* Sub(".") on a handle built with a client of its own and nothing pinned:
\* the derived handle has no owner and the same client.
C11_Witness ==
  /\ last.op = "sub"
  /\ last.name = Dot
  /\ last.derived
  /\ last.prev.client = "client1"
  /\ f.client = "client1"
  /\ f.ref = ZeroRef
  /\ parent = last.prev

\* The reference invariant: a repository only with an owner, a path only
\* with an owner and a repository.
RefInvariant(r) ==
  /\ r.repo # EmptyStr => r.owner # EmptyStr
  /\ r.path # EmptyStr => (r.owner # EmptyStr /\ r.repo # EmptyStr)

\* C12: on a handle built by New from any options and any Sub calls with
\* well-formed names, the reference an Open of a well-formed name computes
\* satisfies the reference invariant, and the Open does not abort.
C12_RefInvariant ==
  (last.op = "open" /\ ~Malformed(last.name)) =>
    /\ RefInvariant(last.ref)
    /\ ~Out.panic

\* The repositories of the pages the calls were answered with, in call order.
RECURSIVE FetchedRepos(_)
FetchedRepos(calls) ==
  IF calls = <<>> THEN <<>> ELSE Head(calls).resp.repos \o FetchedRepos(Tail(calls))

\* C13: an Open of a well-formed name that resolves to an owner with no
\* repository calls ListByUser for that owner at least once; each call after
\* the first asks for the page the previous answer named as next; every
\* answer but the last is good and names a next page, the last names none or
\* fails.  If the last answer is good, Open returns the directory named
\* after the owner whose entries are the repositories of all pages in page
\* order, each a directory of size 0; if it fails, Open returns the
\* translated error and no directory.
C13_ListRepositories ==
  (last.op = "open" /\ ~Malformed(last.name)
     /\ last.ref.owner # EmptyStr /\ last.ref.repo = EmptyStr) =>
    LET n    == Len(Calls)
        all  == FetchedRepos(Calls)
        fail == Calls[n].resp.err
    IN  /\ n >= 1
        /\ \A i \in 1..n :
             Args(Calls[i]) = <<"ListByUser", last.ref.owner, EmptyStr, EmptyStr>>
        /\ \A i \in 2..n : Calls[i].page = Calls[i - 1].resp.nextPage
        /\ \A i \in 1..(n - 1) :
             Calls[i].resp.err = Nil /\ Calls[i].resp.nextPage # 0
        /\ fail # Nil \/ Calls[n].resp.nextPage = 0
        /\ fail = Nil =>
             /\ Out.err = Nil
             /\ Out.file.kind = "dir"
             /\ Out.file.name = last.ref.owner
             /\ Out.file.offset = 0
             /\ Len(Out.file.entries) = Len(all)
             /\ \A i \in 1..Len(all) :
                  Out.file.entries[i] = [name |-> all[i], isDir |-> TRUE, size |-> 0]
        /\ fail # Nil =>
             /\ Out.file = NoFile
             /\ Out.err # Nil
             /\ Out.err = fail \/
                  (/\ Out.err.type = "PathError"
                   /\ Out.err.op = "open"
                   /\ Out.err.path = <<"">> \o last.ref.owner
                   /\ Out.err.cause \in {"ErrNotExist", "ErrPermission"})

\* A listing of two pages, the second asked for as page 5, with one
\* repository each: the directory lists b then a.
C13_Witness ==
  /\ last.op = "open"
  /\ last.ref = OwnerScoped("a")
  /\ Len(Calls) = 2
  /\ Calls[1].resp.nextPage = 5
  /\ Calls[2].page = 5
  /\ Out.file.kind = "dir"
  /\ Out.file.name = <<"a">>
  /\ Len(Out.file.entries) = 2
  /\ Out.file.entries[1].name = <<"b">>
  /\ Out.file.entries[2].name = <<"a">>

\* ======================================================= directory cursor
ChunkSize == 3    \* the n of the chunked reads

LastRead == reads'[Len(reads')]

\* C1: ReadDir(n) on a directory with entries E and offset o.  n <= 0:
\* returns E[o..end], sets the offset to len(E), never signals the end.
\* n > 0 and o = len(E): returns nothing with the end signal, offset kept.
\* n > 0 and o < len(E): returns count = min(n, len(E) - o) entries from o,
\* advances the offset by count, and signals the end exactly when the new
\* offset is len(E) and n > count.
C1_ReadDirStep ==
  reads' # reads =>
    LET n == LastRead.n
        E == d.entries
        o == d.offset
        count == Min(n, Len(E) - o)
    IN  /\ d'.entries = E
        /\ n <= 0 =>
             /\ LastRead.entries = SubSeq(E, o + 1, Len(E))
             /\ d'.offset = Len(E)
             /\ ~LastRead.eof
        /\ n > 0 /\ o = Len(E) =>
             /\ LastRead.entries = <<>>
             /\ LastRead.eof
             /\ d'.offset = o
        /\ n > 0 /\ o < Len(E) =>
             /\ LastRead.entries = SubSeq(E, o + 1, o + count)
             /\ d'.offset = o + count
             /\ LastRead.eof <=> (d'.offset = Len(E) /\ n > count)

RECURSIVE Flatten(_)
Flatten(ss) == IF ss = <<>> THEN <<>> ELSE Head(ss) \o Flatten(Tail(ss))

Chunks(j) == [i \in 1..j |-> reads[i].entries]
AllChunked == \A i \in 1..Len(reads) : reads[i].n = ChunkSize
EofAt == {i \in 1..Len(reads) : reads[i].eof}
FirstEof == CHOOSE i \in EofAt : \A j \in EofAt : i <= j
Drained == ReadDir([d EXCEPT !.offset = 0], -1).entries

\* C2: on a fresh directory with K entries, ReadDir(3) repeated until the end
\* signal yields chunks of at most 3 entries whose concatenation is what one
\* ReadDir(-1) on a fresh handle returns; the signal comes with the final
\* call only (after at most K div 3 + 1 calls), and with a non-empty chunk
\* only when that call asked for more than remained.
C2_ChunkedEqualsDrain ==
  AllChunked =>
    IF EofAt = {}
      THEN /\ Len(reads) <= Len(d.entries) \div ChunkSize
           /\ Flatten(Chunks(Len(reads))) = SubSeq(Drained, 1, ChunkSize * Len(reads))
    ELSE /\ Flatten(Chunks(FirstEof)) = Drained
         /\ \A i \in 1..FirstEof : Len(reads[i].entries) <= ChunkSize
         /\ reads[FirstEof].entries # <<>> =>
              ChunkSize > Len(Drained) - Len(Flatten(Chunks(FirstEof - 1)))

\* Four entries read as a chunk of three and a chunk of one with the signal.
C2_Witness ==
  /\ AllChunked
  /\ Len(d.entries) = 4
  /\ Len(reads) = 2
  /\ Len(reads[1].entries) = 3 /\ ~reads[1].eof
  /\ Len(reads[2].entries) = 1 /\ reads[2].eof

\* C3: on a directory with at least 3 entries, ReadDir(3) right after
\* ReadDir(-1) on the same handle returns exactly 3 entries and no error.
C3_ReadAfterDrain ==
  \A i \in 2..Len(reads) :
    (Len(d.entries) >= ChunkSize /\ reads[i - 1].n = -1 /\ reads[i].n = ChunkSize) =>
      (Len(reads[i].entries) = ChunkSize /\ ~reads[i].eof)

====
